---- MODULE Spec2Model ----
(***************************************************************************)
(* Model of the uefi crate's text console wrapper (proto/console/text/     *)
(* output.rs) and of its error type (result/error.rs).                     *)
(*                                                                         *)
(* Three specifications share the variables:                               *)
(*   Spec       the fmt::Write path (write_str) and output_string_lossy    *)
(*   SpecModes  modes()/OutputModeIter::next, current_mode, set_color      *)
(*   SpecError  Error::new, From<Status>, status(), data(), Display        *)
(* The program is synchronous and single-threaded: an operation starts     *)
(* only when no other one is running (pc = "idle").                        *)
(***************************************************************************)
EXTENDS Integers, Sequences, FiniteSets, TLC

VARIABLES
    pc,       \* position of the running operation ("idle" when none runs)
    op,       \* name of the operation that runs or ran last
    ret,      \* value returned by the operation that ran last
    calls,    \* device entry points called by the running operation, in order
    s,        \* write_str: the input string, a sequence of chars (scalar values)
    pos,      \* write_str: number of chars of s that encode_with has consumed
    pending,  \* write_str: code units add_ch still has to hand to add_char
    buf,      \* write_str: the staging buffer, slots 0..BUF_SIZE
    i,        \* write_str: the staging position
    data,     \* OutputData: the device's auxiliary state
    iter,     \* the live OutputModeIter (current, max) and the modes it yielded
    err,      \* the Error value built last
    args      \* the arguments of the running call

vars == <<pc, op, ret, calls, s, pos, pending, buf, i, data, iter, err, args>>

(***************************************************************************)
(* Bounds of the model.                                                    *)
(***************************************************************************)
\* write_str's BUF_SIZE, 128 in the source (output.rs:183), scaled down: the
\* code depends on it only through "i == BUF_SIZE" and the buffer's length.
BUF_SIZE == 3

\* longest input string given to write_str
MaxLen == 6

\* largest max_mode the device reports
MaxModes == 4

\* largest integer payload of an Error
MaxData == 11

(***************************************************************************)
(* Chars and code units.                                                   *)
(***************************************************************************)
NUL == 0

LF == 10

CR == 13

LetterA == 65

\* a char of the Basic Multilingual Plane that takes 3 bytes of UTF-8
Euro == 8364

\* the first char outside the Basic Multilingual Plane (4 bytes of UTF-8)
NonBmp == 65536

\* the largest UCS-2 code unit
MaxUcs2 == 65535

Chars == {NUL, LF, LetterA, Euro, NonBmp}

Strings == UNION {[1..n -> Chars] : n \in 0..MaxLen}

(***************************************************************************)
(* Status codes and the results made of them.                              *)
(***************************************************************************)
SUCCESS == "SUCCESS"

WARN_UNKNOWN_GLYPH == "WARN_UNKNOWN_GLYPH"

WARN_DELETE_FAILURE == "WARN_DELETE_FAILURE"

UNSUPPORTED == "UNSUPPORTED"

DEVICE_ERROR == "DEVICE_ERROR"

Statuses == {SUCCESS, WARN_UNKNOWN_GLYPH, WARN_DELETE_FAILURE, UNSUPPORTED, DEVICE_ERROR}

\* Status::is_warning: not the success code, and the error bit is clear
IsWarning(status) == status \in {WARN_UNKNOWN_GLYPH, WARN_DELETE_FAILURE}

\* the value () of the unit type
Unit == [type |-> "()"]

\* a usize value
Usize(n) == [type |-> "usize", val |-> n]

None == [tag |-> "None"]

Panic == [tag |-> "panic"]

Ok(val) == [tag |-> "Ok", val |-> val]

Err(e) == [tag |-> "Err", err |-> e]

FmtError == "fmt::Error"

\* Error::new without its assertion
ErrorNewUnchecked(status, payload) ==
    [tag |-> "Error", status |-> status, data |-> payload]

\* Error::new
ErrorNew(status, payload) ==
    IF status = SUCCESS THEN Panic
    ELSE [tag |-> "Error", status |-> status, data |-> payload]

\* impl From<Status> for Error<()>
ErrorFrom(status) == ErrorNew(status, Unit)

\* Status -> Result: Ok for the success code alone, Err(Error) for every
\* warning and error code
IntoWithVal(status, val) ==
    IF status = SUCCESS THEN Ok(val) ELSE Err(ErrorFrom(status))

(***************************************************************************)
(* The device: every entry point returns the status the firmware chooses.  *)
(***************************************************************************)
Call(entry, arg, status) == [entry |-> entry, arg |-> arg, status |-> status]

\* Output::output_string: one call of the output_string entry point
OutputString(string, status) ==
    [call |-> Call("output_string", string, status), ret |-> IntoWithVal(status, Unit)]

\* ResultExt::handle_warning: a failure whose status is a warning is handed to
\* the closure, any other result is returned as it is
HandedToClosure(result) == result.tag = "Err" /\ IsWarning(result.err.status)

\* a lossy handler that forgives every warning
LossyHandlerAnyWarning(e) == Ok(Unit)

\* the closure output_string_lossy gives to handle_warning
LossyHandler(e) ==
    IF e.status = WARN_UNKNOWN_GLYPH THEN Ok(Unit) ELSE Err(e)

\* the null-terminated strings given to output_string_lossy
CStrings == {<<NUL>>, <<LetterA, NUL>>, <<Euro, LetterA, NUL>>}

\* Output::output_string_lossy
OutputStringLossy ==
    /\ pc = "idle"
    /\ \E string \in CStrings, status \in Statuses :
        LET w == OutputString(string, status)
        IN  /\ args' = <<string>>
            /\ calls' = <<w.call>>
            /\ ret' = IF HandedToClosure(w.ret) THEN LossyHandler(w.ret.err) ELSE w.ret
    /\ op' = "output_string_lossy"
    /\ pc' = "done"
    /\ UNCHANGED <<s, pos, pending, buf, i, data, iter, err>>

(***************************************************************************)
(* write_str                                                               *)
(***************************************************************************)
EmptyBuf == [k \in 0..BUF_SIZE |-> 0]

\* ucs2::encode_with: a char of the Basic Multilingual Plane is its code unit,
\* any other char is an error
Ucs2Encode(ch) ==
    IF ch <= MaxUcs2 THEN [ok |-> TRUE, unit |-> ch % (MaxUcs2 + 1)]
    ELSE [ok |-> FALSE, unit |-> 0]

\* CStr16::from_u16_with_nul: the slice must end with its only null unit
FromU16WithNul(codes) ==
    /\ Len(codes) >= 1
    /\ codes[Len(codes)] = NUL
    /\ \A k \in 1..(Len(codes) - 1) : codes[k] # NUL

\* flush_buffer with an empty buffer optimised away
FlushBufferSkipEmpty(b, n, status) ==
    LET b1 == [b EXCEPT ![n] = 0]
        codes == [k \in 1..(n + 1) |-> b1[k - 1]]
    IN  IF n = 0
        THEN [buf |-> b1, i |-> 0, calls |-> <<>>, ok |-> TRUE]
        ELSE IF ~FromU16WithNul(codes)
        THEN [buf |-> b1, i |-> 0, calls |-> <<>>, ok |-> FALSE]
        ELSE LET w == OutputString(codes, status)
             IN  [buf |-> b1, i |-> 0, calls |-> <<w.call>>, ok |-> w.ret.tag = "Ok"]

\* flush_buffer with the outcome of output_string dropped
FlushBufferIgnoreStatus(b, n, status) ==
    LET b1 == [b EXCEPT ![n] = 0]
        codes == [k \in 1..(n + 1) |-> b1[k - 1]]
    IN  IF ~FromU16WithNul(codes)
        THEN [buf |-> b1, i |-> 0, calls |-> <<>>, ok |-> FALSE]
        ELSE LET w == OutputString(codes, status)
             IN  [buf |-> b1, i |-> 0, calls |-> <<w.call>>, ok |-> TRUE]

\* the closure flush_buffer: terminate, reset the position, convert, write
FlushBuffer(b, n, status) ==
    LET b1 == [b EXCEPT ![n] = 0]
        codes == [k \in 1..(n + 1) |-> b1[k - 1]]
    IN  IF ~FromU16WithNul(codes)
        THEN [buf |-> b1, i |-> 0, calls |-> <<>>, ok |-> FALSE]
        ELSE LET w == OutputString(codes, status)
             IN  [buf |-> b1, i |-> 0, calls |-> <<w.call>>, ok |-> w.ret.tag = "Ok"]

\* add_char flushing one unit early
AddCharFnOffByOne(b, n, ch, status) ==
    LET b1 == [b EXCEPT ![n] = ch]
        n1 == n + 1
    IN  IF n1 = BUF_SIZE - 1
        THEN FlushBuffer(b1, n1, status)
        ELSE [buf |-> b1, i |-> n1, calls |-> <<>>, ok |-> TRUE]

\* add_char flushing one unit late
AddCharFnLateFlush(b, n, ch, status) ==
    LET b1 == [b EXCEPT ![n] = ch]
        n1 == n + 1
    IN  IF n1 = BUF_SIZE + 1
        THEN FlushBuffer(b1, n1, status)
        ELSE [buf |-> b1, i |-> n1, calls |-> <<>>, ok |-> TRUE]

\* the closure add_char: stage the unit, flush when the buffer is full
AddCharFn(b, n, ch, status) ==
    LET b1 == [b EXCEPT ![n] = ch]
        n1 == n + 1
    IN  IF n1 = BUF_SIZE
        THEN FlushBuffer(b1, n1, status)
        ELSE [buf |-> b1, i |-> n1, calls |-> <<>>, ok |-> TRUE]

\* add_ch without the line feed translation
AddChNoCr(ch) == <<ch>>

\* the closure add_ch: the units add_char is called with for one code unit
AddCh(ch) == IF ch = LF THEN <<CR, ch>> ELSE <<ch>>

WriteStrCall ==
    /\ pc = "idle"
    /\ \E str \in Strings :
        /\ s' = str
        /\ args' = <<str>>
    /\ op' = "write_str"
    /\ pc' = "encode"
    /\ pos' = 0
    /\ pending' = <<>>
    /\ buf' = EmptyBuf
    /\ i' = 0
    /\ calls' = <<>>
    /\ ret' = None
    /\ UNCHANGED <<data, iter, err>>

\* one iteration of ucs2::encode_with's loop, up to its call of add_ch
EncodeNext ==
    /\ pc = "encode"
    /\ IF pos = Len(s)
       THEN /\ pc' = "final"
            /\ UNCHANGED <<pos, pending, ret>>
       ELSE LET e == Ucs2Encode(s[pos + 1])
            IN  IF e.ok
                THEN /\ pending' = AddCh(e.unit)
                     /\ pos' = pos + 1
                     /\ pc' = "add_char"
                     /\ UNCHANGED ret
                ELSE /\ ret' = Err(FmtError)
                     /\ pc' = "done"
                     /\ UNCHANGED <<pos, pending>>
    /\ UNCHANGED <<op, calls, s, buf, i, data, iter, err, args>>

\* one call of add_char made by add_ch
AddChar ==
    /\ pc = "add_char"
    /\ \E status \in Statuses :
        LET r == AddCharFn(buf, i, Head(pending), status)
        IN  /\ buf' = r.buf
            /\ i' = r.i
            /\ calls' = calls \o r.calls
            /\ IF r.ok
               THEN /\ pending' = Tail(pending)
                    /\ pc' = IF Tail(pending) = <<>> THEN "encode" ELSE "add_char"
                    /\ UNCHANGED ret
               ELSE /\ ret' = Err(FmtError)
                    /\ pc' = "done"
                    /\ UNCHANGED pending
    /\ UNCHANGED <<op, s, pos, data, iter, err, args>>

\* the flush that ends write_str
FinalFlush ==
    /\ pc = "final"
    /\ \E status \in Statuses :
        LET r == FlushBuffer(buf, i, status)
        IN  /\ buf' = r.buf
            /\ i' = r.i
            /\ calls' = calls \o r.calls
            /\ ret' = IF r.ok THEN Ok(Unit) ELSE Err(FmtError)
    /\ pc' = "done"
    /\ UNCHANGED <<op, s, pos, pending, data, iter, err, args>>

\* the operation has returned and its frame is gone (an iterator or an Error
\* at hand is dropped): the caller may start the next operation; the device's
\* auxiliary state is all that persists
Return ==
    /\ pc \in {"done", "iterating", "exhausted", "built"}
    /\ pc' = "idle"
    /\ op' = "none"
    /\ ret' = None
    /\ calls' = <<>>
    /\ s' = <<>>
    /\ pos' = 0
    /\ pending' = <<>>
    /\ buf' = EmptyBuf
    /\ i' = 0
    /\ iter' = None
    /\ err' = None
    /\ args' = <<>>
    /\ UNCHANGED data

(***************************************************************************)
(* Output modes and colours                                                *)
(***************************************************************************)
\* the geometry the device reports for a mode index
DeviceDims(index) == <<80 + (40 * (index \div 2)), 25 * (1 + (index % 2))>>

Some(val) == [tag |-> "Some", val |-> val]

OutputMode(index, dims) == [index |-> index, dims |-> dims]

\* the statuses the device gives a query_mode call
QueryStatuses == {SUCCESS, UNSUPPORTED, DEVICE_ERROR}

\* Output::query_mode: one call of the query_mode entry point
QueryMode(index, status) ==
    [call |-> Call("query_mode", index, status),
     ret |-> IntoWithVal(status, DeviceDims(index))]

\* i32 as usize: a value that is not negative keeps its value. A negative one
\* would wrap to 2^64 + n; the device reports none (max_mode counts the modes,
\* and a negative mode never reaches the cast), so that case is left undefined.
AsUsize(n) == CASE n >= 0 -> n

\* Output::modes
ModesFn(d) == [current |-> 0, max |-> AsUsize(d.max_mode)]

RECURSIVE NextStopsAtFailure(_, _)
\* next() ending the enumeration at the first index whose query fails
NextStopsAtFailure(it, status) ==
    LET index == it.current
    IN  IF index < it.max
        THEN LET it1 == [it EXCEPT !.current = index + 1]
                 q == QueryMode(index, status[index])
             IN  IF q.ret.tag = "Ok"
                 THEN [iter |-> it1, calls |-> <<q.call>>,
                       item |-> Some(OutputMode(index, q.ret.val))]
                 ELSE [iter |-> it1, calls |-> <<q.call>>, item |-> None]
        ELSE [iter |-> it, calls |-> <<>>, item |-> None]

RECURSIVE NextFn(_, _)
\* OutputModeIter::next; status[k] is the status the device gives the query of
\* index k
NextFn(it, status) ==
    LET index == it.current
    IN  IF index < it.max
        THEN LET it1 == [it EXCEPT !.current = index + 1]
                 q == QueryMode(index, status[index])
             IN  IF q.ret.tag = "Ok"
                 THEN [iter |-> it1, calls |-> <<q.call>>,
                       item |-> Some(OutputMode(index, q.ret.val))]
                 ELSE LET r == NextFn(it1, status)
                      IN  [r EXCEPT !.calls = <<q.call>> \o r.calls]
        ELSE [iter |-> it, calls |-> <<>>, item |-> None]

\* current_mode reading "no mode" as mode 0
CurrentModeFnNoSentinel(d, status) ==
    LET index == IF d.mode = -1 THEN 0 ELSE AsUsize(d.mode)
        q == QueryMode(index, status)
    IN  [calls |-> <<q.call>>,
         ret |-> IF q.ret.tag = "Ok"
                 THEN Ok(Some(OutputMode(index, q.ret.val)))
                 ELSE q.ret]

\* Output::current_mode
CurrentModeFn(d, status) ==
    IF d.mode = -1 THEN [calls |-> <<>>, ret |-> Ok(None)]
    ELSE IF d.mode >= 0
    THEN LET index == AsUsize(d.mode)
             q == QueryMode(index, status)
         IN  [calls |-> <<q.call>>,
              ret |-> IF q.ret.tag = "Ok"
                      THEN Ok(Some(OutputMode(index, q.ret.val)))
                      ELSE q.ret]
    ELSE [calls |-> <<>>, ret |-> Panic]

RECURSIVE BitAnd(_, _)
BitAnd(a, b) ==
    IF a = 0 \/ b = 0 THEN 0
    ELSE ((a % 2) * (b % 2)) + (2 * BitAnd(a \div 2, b \div 2))

RECURSIVE BitOr(_, _)
BitOr(a, b) ==
    IF a = 0 THEN b
    ELSE IF b = 0 THEN a
    ELSE (IF (a % 2) + (b % 2) > 0 THEN 1 ELSE 0) + (2 * BitOr(a \div 2, b \div 2))

\* a << n, for the values that stay below the width of usize
Shl(a, n) == a * (2 ^ n)

\* the colours of the enum Color, as usize
Colors == 0..15

\* set_color with the background shifted by 3 bits
AttributeShift3(fgc, bgc) == BitOr(Shl(BitAnd(bgc, 7), 3), BitAnd(fgc, 15))

\* set_color: the attribute made of the two colours
Attribute(fgc, bgc) == BitOr(Shl(BitAnd(bgc, 7), 4), BitAnd(fgc, 15))

\* Output::modes: the iterator is made; ret collects what next() returns
ModesCall ==
    /\ pc = "idle"
    /\ op' = "modes"
    /\ pc' = "iterating"
    /\ iter' = ModesFn(data)
    /\ ret' = <<>>
    /\ calls' = <<>>
    /\ args' = <<>>
    /\ UNCHANGED <<s, pos, pending, buf, i, data, err>>

\* one call of OutputModeIter::next, also after it has returned None; the
\* caller makes at most max + 1 calls
IterNext ==
    /\ pc \in {"iterating", "exhausted"}
    /\ Len(ret) <= iter.max
    /\ \E status \in [iter.current..(iter.max - 1) -> QueryStatuses] :
        LET r == NextFn(iter, status)
        IN  /\ iter' = r.iter
            /\ calls' = calls \o r.calls
            /\ ret' = Append(ret, r.item)
            /\ pc' = IF r.item = None THEN "exhausted" ELSE pc
    /\ UNCHANGED <<op, s, pos, pending, buf, i, data, err, args>>

\* Output::current_mode
CurrentMode ==
    /\ pc = "idle"
    /\ \E status \in QueryStatuses :
        LET r == CurrentModeFn(data, status)
        IN  /\ calls' = r.calls
            /\ ret' = r.ret
            /\ pc' = IF r.ret = Panic THEN "panicked" ELSE "done"
    /\ op' = "current_mode"
    /\ args' = <<>>
    /\ UNCHANGED <<s, pos, pending, buf, i, data, iter, err>>

\* Output::set_color
SetColor ==
    /\ pc = "idle"
    /\ \E foreground \in Colors, background \in Colors, status \in Statuses :
        LET fgc == foreground
            bgc == background
        IN  /\ args' = <<foreground, background>>
            /\ IF bgc < 8
               THEN /\ calls' = <<Call("set_attribute", Attribute(fgc, bgc), status)>>
                    /\ ret' = IntoWithVal(status, Unit)
                    /\ pc' = "done"
               ELSE /\ calls' = <<>>
                    /\ ret' = Panic
                    /\ pc' = "panicked"
    /\ op' = "set_color"
    /\ UNCHANGED <<s, pos, pending, buf, i, data, iter, err>>

(***************************************************************************)
(* Error                                                                   *)
(***************************************************************************)
\* the payloads of the Errors built here: () and the integers 0..MaxData
Payloads == {Unit} \cup {Usize(n) : n \in 0..MaxData}

Digit(d) == <<"0", "1", "2", "3", "4", "5", "6", "7", "8", "9">>[d + 1]

RECURSIVE Decimal(_)
\* the decimal digits of a natural number
Decimal(n) == IF n < 10 THEN <<Digit(n)>> ELSE Append(Decimal(n \div 10), Digit(n % 10))

\* {:?} of a payload
DebugFmt(payload) ==
    IF payload.type = "()" THEN <<"(", ")">> ELSE Decimal(payload.val)

\* {} of a Status: the text of the status, taken as one piece
StatusDisplay(status) == <<status>>

\* Display without the "UEFI " that starts the text
DisplayFmtNoPrefix(e) ==
    <<"E", "r", "r", "o", "r", " ">>
        \o StatusDisplay(e.status) \o <<":", " ">> \o DebugFmt(e.data)

\* impl Display for Error: "UEFI Error {}: {:?}"
DisplayFmt(e) ==
    <<"U", "E", "F", "I", " ", "E", "r", "r", "o", "r", " ">>
        \o StatusDisplay(e.status) \o <<":", " ">> \o DebugFmt(e.data)

\* Error::new(status, data)
ErrorNewCall ==
    /\ pc = "idle"
    /\ \E status \in Statuses, payload \in Payloads :
        /\ args' = <<status, payload>>
        /\ err' = ErrorNew(status, payload)
        /\ pc' = IF ErrorNew(status, payload) = Panic THEN "panicked" ELSE "built"
    /\ op' = "Error::new"
    /\ ret' = None
    /\ UNCHANGED <<calls, s, pos, pending, buf, i, data, iter>>

\* Error::from(status)
ErrorFromCall ==
    /\ pc = "idle"
    /\ \E status \in Statuses :
        /\ args' = <<status>>
        /\ err' = ErrorFrom(status)
        /\ pc' = IF ErrorFrom(status) = Panic THEN "panicked" ELSE "built"
    /\ op' = "Error::from"
    /\ ret' = None
    /\ UNCHANGED <<calls, s, pos, pending, buf, i, data, iter>>

\* Error::status
StatusCall ==
    /\ pc = "built"
    /\ ret' = [tag |-> "status", val |-> err.status]
    /\ UNCHANGED <<pc, op, calls, s, pos, pending, buf, i, data, iter, err, args>>

\* Error::data
DataCall ==
    /\ pc = "built"
    /\ ret' = [tag |-> "data", val |-> err.data]
    /\ UNCHANGED <<pc, op, calls, s, pos, pending, buf, i, data, iter, err, args>>

\* Error::split
SplitCall ==
    /\ pc = "built"
    /\ ret' = [tag |-> "split", val |-> <<err.status, err.data>>]
    /\ UNCHANGED <<pc, op, calls, s, pos, pending, buf, i, data, iter, err, args>>

\* Display::fmt of the Error
DisplayCall ==
    /\ pc = "built"
    /\ ret' = [tag |-> "fmt", val |-> DisplayFmt(err)]
    /\ UNCHANGED <<pc, op, calls, s, pos, pending, buf, i, data, iter, err, args>>

Init ==
    /\ pc = "idle"
    /\ op = "none"
    /\ ret = None
    /\ calls = <<>>
    /\ s = <<>>
    /\ pos = 0
    /\ pending = <<>>
    /\ buf = EmptyBuf
    /\ i = 0
    /\ data = [max_mode |-> 1, mode |-> 0]
    /\ iter = None
    /\ err = None
    /\ args = <<>>

Next ==
    \/ WriteStrCall
    \/ EncodeNext
    \/ AddChar
    \/ FinalFlush
    \/ OutputStringLossy
    \/ Return

Spec == Init /\ [][Next]_vars

\* the auxiliary state of a device: max_mode modes, and the current mode is one
\* of them or -1, no mode
DeviceData ==
    {[max_mode |-> m, mode |-> c] : m \in 0..MaxModes, c \in -1..(MaxModes - 1)}

InitModes ==
    /\ pc = "idle"
    /\ op = "none"
    /\ ret = None
    /\ calls = <<>>
    /\ s = <<>>
    /\ pos = 0
    /\ pending = <<>>
    /\ buf = EmptyBuf
    /\ i = 0
    /\ data \in {d \in DeviceData : d.mode < d.max_mode}
    /\ iter = None
    /\ err = None
    /\ args = <<>>

NextModes ==
    \/ ModesCall
    \/ IterNext
    \/ CurrentMode
    \/ SetColor
    \/ Return

SpecModes == InitModes /\ [][NextModes]_vars

NextError ==
    \/ ErrorNewCall
    \/ ErrorFromCall
    \/ StatusCall
    \/ DataCall
    \/ SplitCall
    \/ DisplayCall
    \/ Return

SpecError == Init /\ [][NextError]_vars

(***************************************************************************)
(* Properties of write_str and output_string_lossy (checked under Spec).   *)
(***************************************************************************)
WriteStrDone == pc = "done" /\ op = "write_str"

WriteStrOk == WriteStrDone /\ ret = Ok(Unit)

\* the code units a device write call carries, its terminator excluded
Units(call) == SubSeq(call.arg, 1, Len(call.arg) - 1)

\* a device write call that carries n code units and then the terminator
Carries(call, n) ==
    /\ call.entry = "output_string"
    /\ Len(call.arg) = n + 1
    /\ call.arg[n + 1] = NUL
    /\ \A k \in 1..n : call.arg[k] # NUL

RECURSIVE Written(_)
\* the code units of a sequence of device write calls, in call order
Written(cs) == IF cs = <<>> THEN <<>> ELSE Units(Head(cs)) \o Written(Tail(cs))

RECURSIVE WithCr(_)
\* a sequence of code units with a carriage return put before each line feed
WithCr(us) ==
    IF us = <<>> THEN <<>>
    ELSE (IF Head(us) = LF THEN <<CR, LF>> ELSE <<Head(us)>>) \o WithCr(Tail(us))

\* the input holds no line feed and encodes to k * BUF_SIZE code units, k >= 1
WholeChunks ==
    /\ Len(s) >= BUF_SIZE
    /\ Len(s) % BUF_SIZE = 0
    /\ \A k \in 1..Len(s) : s[k] # LF /\ s[k] <= MaxUcs2

\* C1 as stated: an input of k * BUF_SIZE code units without line feed, written
\* with every device call succeeding, makes exactly k device write calls, each of
\* BUF_SIZE code units plus the terminator.
C1_ExactlyKCalls ==
    (WriteStrOk /\ WholeChunks) =>
        /\ Len(calls) = Len(s) \div BUF_SIZE
        /\ \A k \in 1..Len(calls) : Carries(calls[k], BUF_SIZE)

\* C1 as amended: such an input makes exactly k + 1 device write calls: k calls of
\* BUF_SIZE code units plus the terminator, then the final flush, which carries
\* the terminator alone.
C1_KCallsThenEmptyFlush ==
    (WriteStrOk /\ WholeChunks) =>
        /\ Len(calls) = (Len(s) \div BUF_SIZE) + 1
        /\ \A k \in 1..(Len(calls) - 1) : Carries(calls[k], BUF_SIZE)
        /\ Carries(calls[Len(calls)], 0)

C1_Witness ==
    /\ WriteStrOk
    /\ WholeChunks
    /\ Len(s) = 2 * BUF_SIZE
    /\ Len(calls) = 3

\* the code units staged at the staging position n of buffer b
Staged(b, n) == [k \in 1..n |-> b[k - 1]]

NoNul(us) == \A k \in 1..Len(us) : us[k] # NUL

ConversionFails ==
    \/ pc = "encode" /\ pos < Len(s) /\ s[pos + 1] > MaxUcs2
    \/ pc = "add_char" /\ i + 1 = BUF_SIZE
        /\ ~NoNul(Append(Staged(buf, i), Head(pending)))
    \/ pc = "final" /\ ~NoNul(Staged(buf, i))

\* C3: the first conversion failure or failed device write call ends write_str
\* at once with fmt::Error: a conversion failure makes no device call, a failed
\* device call is the last call of the operation (no retry, no final flush), and
\* the calls made before stay in the log as they were.
C3_FailureAborts ==
    /\ [](op = "write_str" =>
            /\ \A k \in 1..(Len(calls) - 1) : calls[k].status = SUCCESS
            /\ (calls # <<>> /\ calls[Len(calls)].status # SUCCESS) =>
                    (pc = "done" /\ ret = Err(FmtError)))
    /\ [][(op = "write_str" /\ pc \in {"encode", "add_char", "final"}) =>
            /\ SubSeq(calls', 1, Len(calls)) = calls
            /\ Len(calls') <= Len(calls) + 1
            /\ ConversionFails =>
                    (pc' = "done" /\ ret' = Err(FmtError) /\ calls' = calls)]_vars
    /\ [][WriteStrDone => (pc' = "idle" /\ calls' = <<>>)]_vars

\* a write that failed after a chunk had reached the device
C3_Witness ==
    /\ WriteStrDone
    /\ ret = Err(FmtError)
    /\ Len(calls) = 2
    /\ calls[1].status = SUCCESS
    /\ calls[2].status = DEVICE_ERROR
    /\ pos < Len(s)

\* C4: after a successful write_str the code units of its device write calls,
\* in call order and without the terminators, are the input's code units with a
\* carriage return before each line feed.
C4_CrBeforeEachLf ==
    WriteStrOk => Written(calls) = WithCr([k \in 1..Len(s) |-> Ucs2Encode(s[k]).unit])

\* a carriage return that ends one device call, its line feed starting the next
C4_Witness ==
    /\ WriteStrOk
    /\ \E k \in 1..(Len(calls) - 1) :
        /\ calls[k].arg[BUF_SIZE] = CR
        /\ calls[k + 1].arg[1] = LF
    /\ \E k \in 1..Len(s) : s[k] = Euro
    /\ \E k \in 1..Len(s) : s[k] = LetterA

\* C6: output_string_lossy makes one output_string call and returns success when
\* that call reports success or the unknown glyph warning; for every other status
\* it returns a failure that carries that status.
C6_LossySwallowsUnknownGlyph ==
    (pc = "done" /\ op = "output_string_lossy") =>
        /\ calls = <<Call("output_string", args[1], calls[1].status)>>
        /\ IF calls[1].status \in {SUCCESS, WARN_UNKNOWN_GLYPH}
           THEN ret = Ok(Unit)
           ELSE /\ ret.tag = "Err"
                /\ ret.err.status = calls[1].status
                /\ ret.err.data = Unit

C6_Witness ==
    /\ pc = "done"
    /\ op = "output_string_lossy"
    /\ calls[1].status = WARN_UNKNOWN_GLYPH
    /\ ret = Ok(Unit)

\* the running step of write_str flushes: the final flush, or the add_char that
\* fills the buffer
FlushStep == pc = "final" \/ (pc = "add_char" /\ i + 1 = BUF_SIZE)

\* the slot the terminator of the running flush is written to
TerminatorSlot == IF pc = "final" THEN i ELSE i + 1

\* C11: while write_str runs, the staging position stays within 0..BUF_SIZE - 1
\* between its steps, so the slot a code unit is staged in and the slot a
\* terminator is written to (at most BUF_SIZE) are slots of the buffer; every
\* flush, also a failing one, writes the terminator and leaves the position at 0,
\* a step that stages without flushing moves it by one; and no device write call
\* carries more than BUF_SIZE code units plus the terminator.
C11_StagingPositionInBounds ==
    /\ [](op = "write_str" =>
            /\ DOMAIN buf = 0..BUF_SIZE
            /\ i \in 0..(BUF_SIZE - 1)
            /\ pc = "add_char" => (i \in DOMAIN buf /\ i + 1 \in DOMAIN buf)
            /\ \A k \in 1..Len(calls) :
                /\ Len(calls[k].arg) <= BUF_SIZE + 1
                /\ calls[k].arg[Len(calls[k].arg)] = NUL)
    /\ [][FlushStep =>
            /\ TerminatorSlot \in 0..BUF_SIZE
            /\ buf'[TerminatorSlot] = NUL
            /\ i' = 0]_vars
    /\ [][(pc = "add_char" /\ ~FlushStep) =>
            /\ buf'[i] = Head(pending)
            /\ i' = i + 1]_vars

\* a full buffer whose flush the device refused: the position is 0 again
C11_Witness ==
    /\ WriteStrDone
    /\ ret = Err(FmtError)
    /\ Len(calls) = 1
    /\ Len(calls[1].arg) = BUF_SIZE + 1
    /\ calls[1].status = DEVICE_ERROR
    /\ i = 0
    /\ buf[BUF_SIZE] = NUL
    /\ buf[0] # NUL

(***************************************************************************)
(* Properties of the mode iterator, current_mode and set_color (checked    *)
(* under SpecModes).                                                       *)
(***************************************************************************)
IsSome(item) == item.tag = "Some"

Succeeded(call) == call.status = SUCCESS

\* the mode a successful query_mode call stands for
ModeOf(call) == OutputMode(call.arg, DeviceDims(call.arg))

\* C5: the iterator queries the indices 0, 1, 2, ... below max_mode, each once
\* and in this order; the modes it yields are those of the queries that succeeded,
\* in the same order, the failed ones being skipped; it returns None only when
\* every index below max_mode has been queried, and from then on returns None.
C5_ModesSkipFailures ==
    op = "modes" =>
        LET yielded == SelectSeq(ret, IsSome)
            good == SelectSeq(calls, Succeeded)
        IN  /\ Len(calls) <= data.max_mode
            /\ \A k \in 1..Len(calls) :
                calls[k].entry = "query_mode" /\ calls[k].arg = k - 1
            /\ Len(yielded) = Len(good)
            /\ \A k \in 1..Len(good) : yielded[k].val = ModeOf(good[k])
            /\ \A k \in 1..Len(ret) :
                ret[k] = None =>
                    /\ Len(calls) = data.max_mode
                    /\ \A j \in k..Len(ret) : ret[j] = None

\* four modes, the query of index 2 answered "unsupported": 0, 1, 3 are yielded
C5_Witness ==
    /\ op = "modes"
    /\ data.max_mode = 4
    /\ Len(calls) = 4
    /\ calls[3].status = UNSUPPORTED
    /\ Len(ret) = 4
    /\ ret[1] = Some(OutputMode(0, DeviceDims(0)))
    /\ ret[2] = Some(OutputMode(1, DeviceDims(1)))
    /\ ret[3] = Some(OutputMode(3, DeviceDims(3)))
    /\ ret[4] = None

CurrentModeDone == pc = "done" /\ op = "current_mode"

\* C7 as stated: current_mode returns Ok(None) without a device call when the
\* mode field is -1, and for every other value a mode whose index is that field.
C7_AlwaysAMode ==
    CurrentModeDone =>
        IF data.mode = -1
        THEN ret = Ok(None) /\ calls = <<>>
        ELSE ret.tag = "Ok" /\ ret.val.tag = "Some" /\ ret.val.val.index = data.mode

\* C7 as amended: current_mode returns Ok(None) without a device call when the
\* mode field is -1; for a field that is not negative it makes one query_mode
\* call for that index and returns, when the query succeeds, the mode of that
\* index with the dimensions the device reported, and the failure of the query
\* (with its status) when it fails.
C7_ModeUnlessQueryFails ==
    CurrentModeDone =>
        IF data.mode = -1
        THEN ret = Ok(None) /\ calls = <<>>
        ELSE /\ data.mode >= 0
             /\ Len(calls) = 1
             /\ calls[1].entry = "query_mode"
             /\ calls[1].arg = data.mode
             /\ IF calls[1].status = SUCCESS
                THEN ret = Ok(Some(OutputMode(data.mode, DeviceDims(data.mode))))
                ELSE /\ ret.tag = "Err"
                     /\ ret.err.status = calls[1].status

C7_Witness ==
    /\ CurrentModeDone
    /\ data.mode = 2
    /\ calls[1].status = SUCCESS
    /\ ret.val.val.index = 2

\* C8: set_color makes a set_attribute call only for a background below 8, with
\* the attribute 16 * background + foreground (the background in bits 4..6, the
\* foreground in bits 0..3); for a background of 8 or more it panics and makes no
\* device call.
C8_SetColor ==
    (op = "set_color") =>
        IF args[2] < 8
        THEN /\ pc = "done"
             /\ Len(calls) = 1
             /\ calls[1].entry = "set_attribute"
             /\ calls[1].arg = (16 * (args[2] % 8)) + (args[1] % 16)
        ELSE /\ pc = "panicked"
             /\ ret = Panic
             /\ calls = <<>>

C8_Witness ==
    /\ op = "set_color"
    /\ args = <<15, 7>>
    /\ calls[1].arg = 127

(***************************************************************************)
(* Properties of Error (checked under SpecError).                          *)
(***************************************************************************)
Built == op \in {"Error::new", "Error::from"}

\* the payload the running constructor was given
GivenData == IF op = "Error::new" THEN args[2] ELSE Unit

\* C9: no Error holds the success status: Error::new and Error::from panic when
\* given it, and for every other status they build an Error whose status() and
\* data() return the status and the payload given.
C9_NeverSuccess ==
    /\ err.tag = "Error" => err.status # SUCCESS
    /\ Built =>
        IF args[1] = SUCCESS
        THEN pc = "panicked" /\ err = Panic
        ELSE /\ pc = "built"
             /\ err.tag = "Error"
             /\ ret.tag = "status" => ret.val = args[1]
             /\ ret.tag = "data" => ret.val = GivenData

C9_Witness ==
    /\ op = "Error::from"
    /\ args = <<DEVICE_ERROR>>
    /\ err.status = DEVICE_ERROR
    /\ ret.tag = "data"
    /\ ret.val = Unit

IsDigit(c) == \E d \in 0..9 : Digit(d) = c

DigitValue(c) == CHOOSE d \in 0..9 : Digit(d) = c

RECURSIVE DecimalValue(_)
\* the number a sequence of digits reads as
DecimalValue(ds) ==
    IF ds = <<>> THEN 0
    ELSE (10 * DecimalValue(SubSeq(ds, 1, Len(ds) - 1))) + DigitValue(ds[Len(ds)])

\* text is payload as {:?} prints it
ReadsAs(text, payload) ==
    IF payload.type = "()" THEN text = <<"(", ")">>
    ELSE /\ Len(text) >= 1
         /\ \A k \in 1..Len(text) : IsDigit(text[k])
         /\ Len(text) > 1 => text[1] # "0"
         /\ DecimalValue(text) = payload.val

\* text is lead, then the status, then ": ", then the payload
Formatted(text, lead) ==
    LET n == Len(lead)
    IN  /\ Len(text) >= n + 4
        /\ SubSeq(text, 1, n) = lead
        /\ text[n + 1] = args[1]
        /\ text[n + 2] = ":"
        /\ text[n + 3] = " "
        /\ ReadsAs(SubSeq(text, n + 4, Len(text)), GivenData)

\* C10 as stated: the Display text of an Error is "Error ", the status, ": " and
\* the payload, nothing coming before "Error".
C10_ErrorFirst ==
    (Built /\ ret.tag = "fmt") =>
        Formatted(ret.val, <<"E", "r", "r", "o", "r", " ">>)

\* C10 as amended: the Display text of an Error is "UEFI Error ", the status,
\* ": " and the payload as {:?} prints it.
C10_UefiErrorFirst ==
    (Built /\ ret.tag = "fmt") =>
        Formatted(ret.val, <<"U", "E", "F", "I", " ", "E", "r", "r", "o", "r", " ">>)

C10_Witness ==
    /\ op = "Error::new"
    /\ args = <<UNSUPPORTED, Usize(10)>>
    /\ ret.tag = "fmt"
    /\ Len(ret.val) = 16

====
